---- MODULE Spec2Model ----
(***************************************************************************)
(* get_auc of python/auc.py as a state machine: one action per statement   *)
(* group of the function body, the numbers it computes carried either as   *)
(* IEEE-754 doubles (what CPython evaluates `1.0 / number_positive` and    *)
(* the running sums in) or as exact fractions (the real-number reading     *)
(* of the same expressions).                                               *)
(***************************************************************************)
EXTENDS Integers, Sequences, FiniteSets

VARIABLES labels, probabilities, arith, pc, number_positive, number_negative,
          ordered_labels, i, fpr, tpr, auc, raised, result

vars == <<labels, probabilities, arith, pc, number_positive, number_negative,
          ordered_labels, i, fpr, tpr, auc, raised, result>>

(***************************************************************************)
(* Bounds of the model.                                                    *)
(***************************************************************************)
\* longest labels / probabilities list of an arbitrary call
MaxLen == 3
\* longest list of a well-formed call with two-valued scores
MaxLenF == 7

LabelValues == {-1, 0, 1}
ProbValues == {0, 1, 2}

SeqsUpTo(S, n) == UNION {[1 .. k -> S] : k \in 0 .. n}

(***************************************************************************)
(* Exact fractions <<n, d>>, d > 0, in lowest terms.                       *)
(***************************************************************************)
RECURSIVE GCD(_, _)
GCD(a, b) == IF b = 0 THEN a ELSE GCD(b, a % b)

QNorm(n, d) == LET g == GCD(n, d) IN <<n \div g, d \div g>>

QAdd(x, y) == QNorm(x[1] * y[2] + y[1] * x[2], x[2] * y[2])

QDivInt(x, n) == QNorm(x[1], x[2] * n)

QLessEq(x, y) == x[1] * y[2] <= y[1] * x[2]

(***************************************************************************)
(* IEEE-754 binary64 values in [2^-7, 2), and 0: the value is              *)
(* (a0 + a1 * Base + a2 * Base^2) * 2^-60, held as limbs <<a0, a1, a2>>;    *)
(* a double of that range has 53 significant bits and is a multiple of     *)
(* 2^-59, so the limbs hold it exactly.                                    *)
(***************************************************************************)
Base == 2 ^ 20
Mantissa == 53

RECURSIVE BitLen(_)
BitLen(x) == IF x = 0 THEN 0 ELSE 1 + BitLen(x \div 2)

FNorm(m) ==
    LET c0 == m[1] \div Base
        b1 == m[2] + c0
        c1 == b1 \div Base
    IN <<m[1] % Base, b1 % Base, m[3] + c1>>

FBits(m) ==
    IF m[3] > 0 THEN 40 + BitLen(m[3])
    ELSE IF m[2] > 0 THEN 20 + BitLen(m[2])
    ELSE BitLen(m[1])

\* round to nearest, ties to even, of the exact value m (+ a positive
\* fraction of the last place when sticky) to Mantissa significant bits
FRound(m, sticky) ==
    LET drop == FBits(m) - Mantissa
    IN IF drop <= 0 THEN m
       ELSE LET unit == 2 ^ drop
                r == m[1] % unit
                half == unit \div 2
                odd == IF drop < 20 THEN (m[1] \div unit) % 2 = 1
                       ELSE m[2] % 2 = 1
                up == r > half \/ (r = half /\ (sticky \/ odd))
            IN FNorm(<<m[1] - r + (IF up THEN unit ELSE 0), m[2], m[3]>>)

FAdd(x, y) == FRound(FNorm(<<x[1] + y[1], x[2] + y[2], x[3] + y[3]>>), FALSE)

FDivInt(x, n) ==
    LET q2 == x[3] \div n
        t1 == (x[3] % n) * Base + x[2]
        q1 == t1 \div n
        t0 == (t1 % n) * Base + x[1]
        q0 == t0 \div n
    IN FRound(<<q0, q1, q2>>, t0 % n # 0)

FLessEq(x, y) ==
    \/ x[3] < y[3]
    \/ x[3] = y[3] /\ x[2] < y[2]
    \/ x[3] = y[3] /\ x[2] = y[2] /\ x[1] <= y[1]

(***************************************************************************)
(* The numbers of get_auc in the arithmetic ar ("ieee" or "exact").        *)
(* DivZero stands for the outcome of a division by a zero count. Zero is   *)
(* the int 0 of `fpr = [0]` as well as the float 0.0: the two are equal    *)
(* in Python and add and divide alike.                                     *)
(***************************************************************************)
DivZero == <<-1>>

Zero(ar) == IF ar = "ieee" THEN <<0, 0, 0>> ELSE <<0, 1>>

One(ar) == IF ar = "ieee" THEN <<0, 0, Base>> ELSE <<1, 1>>

Add(ar, x, y) ==
    IF x = DivZero \/ y = DivZero THEN DivZero
    ELSE IF ar = "ieee" THEN FAdd(x, y) ELSE QAdd(x, y)

Div(ar, x, n) ==
    IF x = DivZero \/ n = 0 THEN DivZero
    ELSE IF ar = "ieee" THEN FDivInt(x, n) ELSE QDivInt(x, n)

LessEq(ar, x, y) == IF ar = "ieee" THEN FLessEq(x, y) ELSE QLessEq(x, y)

(***************************************************************************)
(* zip(probabilities, labels) and list.sort(reverse=True) on its tuples.   *)
(***************************************************************************)
Min(a, b) == IF a <= b THEN a ELSE b

Zip(p, l) == [k \in 1 .. Min(Len(p), Len(l)) |-> <<p[k], l[k]>>]

\* sort() without reverse=True
TupleLess(a, b) == a[1] < b[1] \/ (a[1] = b[1] /\ a[2] < b[2])

\* the scores cut to whole halves before they are compared
TupleGreaterBucketed(a, b) ==
    a[1] \div 2 > b[1] \div 2 \/ (a[1] \div 2 = b[1] \div 2 /\ a[2] > b[2])

\* equal scores ordered by label ascending
TupleGreaterLabelAscending(a, b) ==
    a[1] > b[1] \/ (a[1] = b[1] /\ a[2] < b[2])

\* Python's tuple order: first items first, then second items
TupleGreater(a, b) == a[1] > b[1] \/ (a[1] = b[1] /\ a[2] > b[2])

RECURSIVE Insert(_, _)
Insert(s, x) ==
    IF s = <<>> THEN <<x>>
    ELSE IF TupleGreater(x, Head(s)) THEN <<x>> \o s
    ELSE <<Head(s)>> \o Insert(Tail(s), x)

\* the zipped list left as it is
Unsorted(s) == s

RECURSIVE SortReverse(_)
SortReverse(s) ==
    IF s = <<>> THEN <<>> ELSE Insert(SortReverse(Tail(s)), Head(s))

\* the zeros counted as sum(labels != 1)
CountEqOrOther(l, v) ==
    IF v = 0 THEN Cardinality({k \in 1 .. Len(l) : l[k] # 1})
    ELSE Cardinality({k \in 1 .. Len(l) : l[k] = v})

\* sum(labels == v)
CountEq(l, v) == Cardinality({k \in 1 .. Len(l) : l[k] = v})

Last(s) == s[Len(s)]

(***************************************************************************)
(* The body of the for loop, on the curve c = [fpr, tpr, auc].             *)
(***************************************************************************)
\* 1 / number_positive, the integer division of Python 2
PositiveStepIntegerDivision(ar, np, c) ==
    [fpr |-> Append(c.fpr, Last(c.fpr)),
     tpr |-> Append(c.tpr, Add(ar, Last(c.tpr),
                               IF np = 1 THEN One(ar) ELSE Zero(ar))),
     auc |-> c.auc]

PositiveStep(ar, np, c) ==
    [fpr |-> Append(c.fpr, Last(c.fpr)),
     tpr |-> Append(c.tpr, Add(ar, Last(c.tpr), Div(ar, One(ar), np))),
     auc |-> c.auc]

\* fpr.append(1.0 / number_negative): the step without the running sum
NegativeStepNoRunningSum(ar, nn, c) ==
    LET f == Append(c.fpr, Div(ar, One(ar), nn))
        t == Append(c.tpr, Last(c.tpr))
    IN [fpr |-> f, tpr |-> t, auc |-> Add(ar, c.auc, Div(ar, Last(t), nn))]

\* auc + fpr[-1] / number_negative: the width taken for the height
NegativeStepFprHeight(ar, nn, c) ==
    LET f == Append(c.fpr, Add(ar, Last(c.fpr), Div(ar, One(ar), nn)))
        t == Append(c.tpr, Last(c.tpr))
    IN [fpr |-> f, tpr |-> t, auc |-> Add(ar, c.auc, Div(ar, Last(f), nn))]

\* auc = tpr[-1] / number_negative: the area overwritten, not accumulated
NegativeStepOverwritesAuc(ar, nn, c) ==
    LET f == Append(c.fpr, Add(ar, Last(c.fpr), Div(ar, One(ar), nn)))
        t == Append(c.tpr, Last(c.tpr))
    IN [fpr |-> f, tpr |-> t, auc |-> Div(ar, Last(t), nn)]

NegativeStep(ar, nn, c) ==
    LET f == Append(c.fpr, Add(ar, Last(c.fpr), Div(ar, One(ar), nn)))
        t == Append(c.tpr, Last(c.tpr))
    IN [fpr |-> f, tpr |-> t, auc |-> Add(ar, c.auc, Div(ar, Last(t), nn))]

LoopBody(ar, np, nn, label, c) ==
    IF label[2] = 1 THEN PositiveStep(ar, np, c) ELSE NegativeStep(ar, nn, c)

InitialCurve(ar) == [fpr |-> <<Zero(ar)>>, tpr |-> <<Zero(ar)>>, auc |-> Zero(ar)]

Unbound == <<>>

(***************************************************************************)
(* The calls: any two short lists; the three calls of the docstring        *)
(* (scores in tenths); and longer well-formed calls whose scores are all   *)
(* distinct (every sweep order of the labels) or take two values (ties).   *)
(***************************************************************************)
InitAny ==
    /\ labels \in SeqsUpTo(LabelValues, MaxLen)
    /\ probabilities \in SeqsUpTo(ProbValues, MaxLen)

InitDoctest ==
    \/ labels = <<-1, 1>> /\ probabilities = <<0, 0>>
    \/ labels = <<0, 1>> /\ probabilities = <<0, 0, 10>>
    \/ labels = <<0, 0, 1, 1>> /\ probabilities = <<0, 6, 4, 8>>

Descending(n) == [k \in 1 .. n |-> n - k]

TwoBlocks(n, j) == [k \in 1 .. n |-> IF k <= j THEN 1 ELSE 0]

RankedScores(n) == {Descending(n)} \cup {TwoBlocks(n, j) : j \in 0 .. n}

InitLong ==
    \E n \in MaxLen + 1 .. MaxLenF :
        /\ labels \in [1 .. n -> {0, 1}]
        /\ probabilities \in RankedScores(n)

Init ==
    /\ InitAny \/ InitDoctest \/ InitLong
    /\ arith \in {"ieee", "exact"}
    /\ pc = "call"
    /\ number_positive = -1
    /\ number_negative = -1
    /\ ordered_labels = Unbound
    /\ i = 0
    /\ fpr = Unbound
    /\ tpr = Unbound
    /\ auc = Unbound
    /\ raised = "none"
    /\ result = Unbound

\* labels.size > probabilities.size
LengthsDifferOneWay == Len(labels) > Len(probabilities)

\* labels.size != probabilities.size
LengthsDiffer == Len(labels) # Len(probabilities)

\* number_positive + number_negative != labels.size
NotOnlyZeroOne == number_positive + number_negative # Len(labels)

Count ==
    /\ pc = "call"
    /\ number_positive' = CountEq(labels, 1)
    /\ number_negative' = CountEq(labels, 0)
    /\ pc' = "check_lengths"
    /\ UNCHANGED <<labels, probabilities, arith, ordered_labels, i, fpr, tpr,
                   auc, raised, result>>

RaiseLengths ==
    /\ pc = "check_lengths"
    /\ LengthsDiffer
    /\ raised' = "AssertionError: lists has different lengths"
    /\ pc' = "raised"
    /\ UNCHANGED <<labels, probabilities, arith, number_positive,
                   number_negative, ordered_labels, i, fpr, tpr, auc, result>>

PassLengths ==
    /\ pc = "check_lengths"
    /\ ~LengthsDiffer
    /\ pc' = "check_labels"
    /\ UNCHANGED <<labels, probabilities, arith, number_positive,
                   number_negative, ordered_labels, i, fpr, tpr, auc, raised,
                   result>>

RaiseLabels ==
    /\ pc = "check_labels"
    /\ NotOnlyZeroOne
    /\ raised' = "ValueError: labels contains not only {0, 1}"
    /\ pc' = "raised"
    /\ UNCHANGED <<labels, probabilities, arith, number_positive,
                   number_negative, ordered_labels, i, fpr, tpr, auc, result>>

PassLabels ==
    /\ pc = "check_labels"
    /\ ~NotOnlyZeroOne
    /\ pc' = "sort"
    /\ UNCHANGED <<labels, probabilities, arith, number_positive,
                   number_negative, ordered_labels, i, fpr, tpr, auc, raised,
                   result>>

Sort ==
    /\ pc = "sort"
    /\ ordered_labels' = SortReverse(Zip(probabilities, labels))
    /\ pc' = "init"
    /\ UNCHANGED <<labels, probabilities, arith, number_positive,
                   number_negative, i, fpr, tpr, auc, raised, result>>

InitValues ==
    /\ pc = "init"
    /\ fpr' = InitialCurve(arith).fpr
    /\ tpr' = InitialCurve(arith).tpr
    /\ auc' = InitialCurve(arith).auc
    /\ i' = 0
    /\ pc' = "loop"
    /\ UNCHANGED <<labels, probabilities, arith, number_positive,
                   number_negative, ordered_labels, raised, result>>

Curve == [fpr |-> fpr, tpr |-> tpr, auc |-> auc]

StepPositive ==
    /\ pc = "loop"
    /\ i < Len(ordered_labels)
    /\ ordered_labels[i + 1][2] = 1
    /\ LET c == PositiveStep(arith, number_positive, Curve)
       IN /\ fpr' = c.fpr
          /\ tpr' = c.tpr
          /\ auc' = c.auc
    /\ i' = i + 1
    /\ UNCHANGED <<labels, probabilities, arith, pc, number_positive,
                   number_negative, ordered_labels, raised, result>>

StepNegative ==
    /\ pc = "loop"
    /\ i < Len(ordered_labels)
    /\ ordered_labels[i + 1][2] # 1
    /\ LET c == NegativeStep(arith, number_negative, Curve)
       IN /\ fpr' = c.fpr
          /\ tpr' = c.tpr
          /\ auc' = c.auc
    /\ i' = i + 1
    /\ UNCHANGED <<labels, probabilities, arith, pc, number_positive,
                   number_negative, ordered_labels, raised, result>>

Return ==
    /\ pc = "loop"
    /\ i = Len(ordered_labels)
    /\ result' = <<auc, fpr, tpr>>
    /\ pc' = "done"
    /\ UNCHANGED <<labels, probabilities, arith, number_positive,
                   number_negative, ordered_labels, i, fpr, tpr, auc, raised>>

Next ==
    \/ Count
    \/ RaiseLengths
    \/ PassLengths
    \/ RaiseLabels
    \/ PassLabels
    \/ Sort
    \/ InitValues
    \/ StepPositive
    \/ StepNegative
    \/ Return

Spec == Init /\ [][Next]_vars

(***************************************************************************)
(* get_auc as a function of a well-formed call: the sweep of lines 42-59.  *)
(***************************************************************************)
RECURSIVE Sweep(_, _, _, _, _)
Sweep(ar, np, nn, ol, c) ==
    IF ol = <<>> THEN <<c.auc, c.fpr, c.tpr>>
    ELSE Sweep(ar, np, nn, Tail(ol), LoopBody(ar, np, nn, Head(ol), c))

GetAuc(ar, l, p) ==
    Sweep(ar, CountEq(l, 1), CountEq(l, 0), SortReverse(Zip(p, l)),
          InitialCurve(ar))

(***************************************************************************)
(* Vocabulary of the properties.                                           *)
(***************************************************************************)
N == Len(labels)

WellFormed ==
    /\ Len(labels) = Len(probabilities)
    /\ \A k \in 1 .. N : labels[k] \in {0, 1}

Positives == {k \in 1 .. N : labels[k] = 1}
Negatives == {k \in 1 .. N : labels[k] = 0}
BothClasses == Positives # {} /\ Negatives # {}

\* (positive, negative) pairs ranked strictly right / right or tied
HigherPairs ==
    Cardinality({q \in Positives \X Negatives :
                    probabilities[q[1]] > probabilities[q[2]]})
HigherOrEqualPairs ==
    Cardinality({q \in Positives \X Negatives :
                    probabilities[q[1]] >= probabilities[q[2]]})

\* positions of ordered_labels holding a positive j before a negative k
SweptBeforePairs ==
    Cardinality({q \in (1 .. Len(ordered_labels)) \X (1 .. Len(ordered_labels)) :
                    /\ q[1] < q[2]
                    /\ ordered_labels[q[1]][2] = 1
                    /\ ordered_labels[q[2]][2] = 0})

PositivesSwept == Cardinality({k \in 1 .. i : ordered_labels[k][2] = 1})
NegativesSwept == Cardinality({k \in 1 .. i : ordered_labels[k][2] = 0})

\* the quotient c / m as one correctly rounded division (m > 0)
Quotient(ar, c, m) ==
    IF ar = "ieee" THEN FDivInt(<<0, 0, c * Base>>, m) ELSE QNorm(c, m)

\* x is c / m: exactly, in exact arithmetic; within n * 2^-52, in doubles
\* (|x * m - c| <= m * n * 2^-52, in units of 2^-60)
Near(ar, x, c, m, n) ==
    IF ar = "ieee"
    THEN LET xm == FNorm(<<x[1] * m, x[2] * m, x[3] * m>>)
             cc == <<0, 0, c * Base>>
             slack == m * n * (2 ^ 8)
         IN /\ FLessEq(cc, FNorm(<<xm[1] + slack, xm[2], xm[3]>>))
            /\ FLessEq(xm, FNorm(<<slack, 0, c * Base>>))
    ELSE x = QNorm(c, m)

NonDecreasing(ar, s) ==
    \A k \in 1 .. Len(s) - 1 : LessEq(ar, s[k], s[k + 1])

AssertionMessage == "AssertionError: lists has different lengths"
ValueMessage == "ValueError: labels contains not only {0, 1}"

(***************************************************************************)
(* C1 as stated: for every well-formed call, fpr and tpr (as exact         *)
(* fractions) are non-decreasing, of length n + 1, start at 0 and end      *)
(* at 1.                                                                   *)
(***************************************************************************)
C1_RatesEndAtOne ==
    (pc = "done" /\ arith = "exact") =>
        /\ Len(fpr) = N + 1 /\ Len(tpr) = N + 1
        /\ NonDecreasing(arith, fpr) /\ NonDecreasing(arith, tpr)
        /\ fpr[1] = Zero(arith) /\ tpr[1] = Zero(arith)
        /\ Last(fpr) = One(arith) /\ Last(tpr) = One(arith)

(***************************************************************************)
(* C1 amended: for every well-formed call, fpr and tpr are non-decreasing, *)
(* of length n + 1 and start at 0; as exact fractions fpr ends at 1 when   *)
(* some label is 0 and tpr ends at 1 when some label is 1, and the rate    *)
(* of a class with no label ends at 0.                                     *)
(***************************************************************************)
C1_RatesMonotoneToOne ==
    pc = "done" =>
        /\ Len(fpr) = N + 1 /\ Len(tpr) = N + 1
        /\ NonDecreasing(arith, fpr) /\ NonDecreasing(arith, tpr)
        /\ fpr[1] = Zero(arith) /\ tpr[1] = Zero(arith)
        /\ arith = "exact" =>
              /\ Last(fpr) = (IF Negatives # {} THEN One(arith) ELSE Zero(arith))
              /\ Last(tpr) = (IF Positives # {} THEN One(arith) ELSE Zero(arith))

C1_Witness ==
    /\ pc = "done" /\ arith = "exact" /\ N = 3 /\ BothClasses
    /\ Last(fpr) = One(arith) /\ Last(tpr) = One(arith)
    /\ fpr[2] # fpr[3]

(***************************************************************************)
(* C2: a call whose lists differ in length raises the length-mismatch      *)
(* AssertionError and returns nothing, whatever its labels are: it never   *)
(* gets past the length check.                                             *)
(***************************************************************************)
C2_LengthMismatchRaises ==
    Len(labels) # Len(probabilities) =>
        /\ pc \in {"call", "check_lengths", "raised"}
        /\ result = Unbound
        /\ pc = "raised" => raised = AssertionMessage
        /\ pc # "raised" => raised = "none"

C2_Witness ==
    /\ pc = "raised" /\ raised = AssertionMessage
    /\ Len(labels) < Len(probabilities)
    /\ \E k \in 1 .. N : labels[k] \notin {0, 1}

(***************************************************************************)
(* C3: a call with lists of equal length and a label outside {0, 1}        *)
(* raises the invalid-label ValueError before any curve point exists,      *)
(* and returns nothing.                                                    *)
(***************************************************************************)
C3_InvalidLabelRaises ==
    (Len(labels) = Len(probabilities) /\ \E k \in 1 .. N : labels[k] \notin {0, 1}) =>
        /\ pc \in {"call", "check_lengths", "check_labels", "raised"}
        /\ fpr = Unbound /\ tpr = Unbound /\ auc = Unbound
        /\ result = Unbound
        /\ pc = "raised" => raised = ValueMessage
        /\ pc # "raised" => raised = "none"

C3_Witness ==
    /\ pc = "raised" /\ raised = ValueMessage
    /\ N = 3 /\ Len(probabilities) = 3
    /\ labels[1] = 1 /\ labels[2] = 0 /\ labels[3] = -1

(***************************************************************************)
(* C4 as stated: a well-formed call with no positive or no negative label  *)
(* fails instead of returning a result.                                    *)
(***************************************************************************)
C4_DegenerateFails ==
    (WellFormed /\ ~BothClasses) => pc # "done"

(***************************************************************************)
(* C4 amended: a well-formed call with no positive or no negative label    *)
(* raises nothing and returns auc = 0 with curves of length n + 1; no      *)
(* division by the zero count is evaluated, the rate of the missing class  *)
(* stays 0 throughout.                                                     *)
(***************************************************************************)
C4_DegenerateReturns ==
    (WellFormed /\ ~BothClasses) =>
        /\ pc # "raised" /\ raised = "none"
        /\ pc = "done" =>
              /\ result = <<Zero(arith), fpr, tpr>>
              /\ Len(fpr) = N + 1 /\ Len(tpr) = N + 1
              /\ \A k \in 1 .. N + 1 : fpr[k] # DivZero /\ tpr[k] # DivZero
              /\ Positives = {} => \A k \in 1 .. N + 1 : tpr[k] = Zero(arith)
              /\ Negatives = {} => \A k \in 1 .. N + 1 : fpr[k] = Zero(arith)

C4_Witness ==
    /\ pc = "done" /\ WellFormed /\ N = 3 /\ Positives = {}
    /\ result[1] = Zero(arith)

Perfect ==
    \A j \in Positives : \A k \in Negatives : probabilities[j] > probabilities[k]

(***************************************************************************)
(* C5 as stated: a well-formed call with both classes in which every       *)
(* positive scores strictly higher than every negative returns auc         *)
(* exactly 1.0.                                                            *)
(***************************************************************************)
C5_PerfectIsExactlyOne ==
    (pc = "done" /\ BothClasses /\ Perfect) => result[1] = One(arith)

(***************************************************************************)
(* C5 amended: such a call returns auc = 1 in exact arithmetic, and in     *)
(* the doubles the code computes in an auc within n * 2^-52 of 1.0 (the    *)
(* running sums of 1.0/number_positive and tpr/number_negative round).     *)
(***************************************************************************)
C5_PerfectIsNearOne ==
    (pc = "done" /\ BothClasses /\ Perfect) => Near(arith, result[1], 1, 1, N)

C5_Witness ==
    /\ pc = "done" /\ BothClasses /\ Perfect /\ arith = "ieee"
    /\ Cardinality(Positives) = 2 /\ Cardinality(Negatives) = 3
    /\ result[1] = One(arith)

(***************************************************************************)
(* C6: the result of a well-formed call is the same after any strictly     *)
(* increasing transform of its probabilities: same auc, same fpr, same     *)
(* tpr.                                                                    *)
(***************************************************************************)
Scores == 0 .. 10

Transforms ==
    {[x \in Scores |-> IF x < g THEN x ELSE x + s] : g \in Scores, s \in 1 .. 2}
    \cup {[x \in Scores |-> a * x + b] : a \in 1 .. 3, b \in {-5, 0, 7}}
    \cup {[x \in Scores |-> x * x]}

Transformed(f) == [k \in 1 .. Len(probabilities) |-> f[probabilities[k]]]

C6_MonotoneTransformInvariant ==
    pc = "done" =>
        \A f \in Transforms : GetAuc(arith, labels, Transformed(f)) = result

C6_Witness ==
    /\ pc = "done" /\ BothClasses /\ N = 3
    /\ probabilities = <<1, 0, 1>> /\ labels = <<0, 1, 1>>
    /\ \E f \in Transforms : Transformed(f) = <<8, 7, 8>>

(***************************************************************************)
(* C7 as stated: for a well-formed call with both classes, auc is the      *)
(* share of (positive, negative) pairs in which the positive scores        *)
(* strictly higher than the negative.                                      *)
(***************************************************************************)
C7_AucIsShareOfHigherPairs ==
    (pc = "done" /\ BothClasses) =>
        result[1] = Quotient(arith, HigherPairs, number_positive * number_negative)

(***************************************************************************)
(* C7 amended: for a well-formed call with both classes, auc is the share  *)
(* of (positive, negative) pairs in which the positive scores higher than  *)
(* or equal to the negative: exactly in exact arithmetic, within           *)
(* n * 2^-52 in the doubles the code computes in.                          *)
(***************************************************************************)
C7_AucIsShareOfHigherOrEqualPairs ==
    (pc = "done" /\ BothClasses) =>
        Near(arith, result[1], HigherOrEqualPairs,
             number_positive * number_negative, N)

C7_Witness ==
    /\ pc = "done" /\ BothClasses /\ N = 3
    /\ HigherPairs = 0 /\ HigherOrEqualPairs = 1
    /\ result[1] = Quotient(arith, 1, 2)

Occurrences(s, x) == Cardinality({k \in 1 .. Len(s) : s[k] = x})

(***************************************************************************)
(* C8: the pairs are swept by probability descending and, among equal      *)
(* probabilities, by label descending: ordered_labels is the list of       *)
(* (probability, label) pairs rearranged so that no pair precedes one of   *)
(* strictly higher probability and no label-0 pair precedes a label-1      *)
(* pair of the same probability, and the k-th curve step is the one of     *)
(* its k-th pair.                                                          *)
(***************************************************************************)
C8_SweepOrder ==
    pc \in {"init", "loop", "done"} =>
        /\ Len(ordered_labels) = N
        /\ \A k \in 1 .. N :
              Occurrences(ordered_labels, <<probabilities[k], labels[k]>>)
                  = Occurrences(Zip(probabilities, labels),
                                <<probabilities[k], labels[k]>>)
        /\ \A j \in 1 .. N : \A k \in j + 1 .. N :
              /\ ordered_labels[j][1] >= ordered_labels[k][1]
              /\ ordered_labels[j][1] = ordered_labels[k][1]
                    => ordered_labels[j][2] >= ordered_labels[k][2]
        /\ pc # "init" =>
              \A k \in 1 .. i :
                  /\ ordered_labels[k][2] = 1 => tpr[k + 1] # tpr[k]
                  /\ ordered_labels[k][2] = 0 => fpr[k + 1] # fpr[k]

C8_Witness ==
    /\ pc = "loop" /\ i = 2
    /\ labels = <<0, 1, 1>> /\ probabilities = <<1, 1, 2>>
    /\ ordered_labels = <<(<<2, 1>>), (<<1, 1>>), (<<1, 0>>)>>

RECURSIVE AucUpTo(_)
AucUpTo(k) ==
    IF k = 0 THEN Zero(arith)
    ELSE IF ordered_labels[k][2] = 1 THEN AucUpTo(k - 1)
    ELSE Add(arith, AucUpTo(k - 1), Div(arith, tpr[k + 1], number_negative))

\* every swept pair appended one point that moves in one coordinate
OnePointPerPair ==
    /\ Len(fpr) = i + 1 /\ Len(tpr) = i + 1
    /\ fpr[1] = Zero(arith) /\ tpr[1] = Zero(arith)
    /\ \A k \in 1 .. i :
          IF ordered_labels[k][2] = 1
          THEN /\ fpr[k + 1] = fpr[k]
               /\ tpr[k + 1] = Add(arith, tpr[k],
                                   Div(arith, One(arith), number_positive))
          ELSE /\ tpr[k + 1] = tpr[k]
               /\ fpr[k + 1] = Add(arith, fpr[k],
                                   Div(arith, One(arith), number_negative))
    /\ auc = AucUpTo(i)

IsDoctestCall == labels = <<0, 0, 1, 1>> /\ probabilities = <<0, 6, 4, 8>>

DoctestResult ==
    <<Quotient(arith, 3, 4),
      <<Zero(arith), Zero(arith), Quotient(arith, 1, 2), Quotient(arith, 1, 2),
        One(arith)>>,
      <<Zero(arith), Quotient(arith, 1, 2), Quotient(arith, 1, 2), One(arith),
        One(arith)>> >>

(***************************************************************************)
(* C9 as stated: each swept pair appends one curve point that moves in     *)
(* one coordinate (a label-1 pair raises tpr by 1/number_positive and      *)
(* leaves fpr and auc; a label-0 pair raises fpr by 1/number_negative,     *)
(* leaves tpr and adds tpr/number_negative to auc), so that after k pairs  *)
(* fpr = (negatives swept)/number_negative and                             *)
(* tpr = (positives swept)/number_positive.                                *)
(***************************************************************************)
C9_StepsGiveExactRates ==
    pc \in {"loop", "done"} =>
        /\ OnePointPerPair
        /\ number_negative > 0 =>
              Last(fpr) = Quotient(arith, NegativesSwept, number_negative)
        /\ number_positive > 0 =>
              Last(tpr) = Quotient(arith, PositivesSwept, number_positive)

(***************************************************************************)
(* C9 amended: each swept pair appends one curve point that moves in one   *)
(* coordinate, as stated; after k pairs fpr and tpr are the running sums   *)
(* of (negatives swept) terms 1/number_negative and (positives swept)      *)
(* terms 1/number_positive, which are those fractions exactly in exact     *)
(* arithmetic and within n * 2^-52 of them in the doubles the code         *)
(* computes in; the docstring's call returns                               *)
(* (0.75, [0,0,0.5,0.5,1.0], [0,0.5,0.5,1.0,1.0]).                         *)
(***************************************************************************)
C9_StepsGiveRates ==
    pc \in {"loop", "done"} =>
        /\ OnePointPerPair
        /\ number_negative > 0 =>
              Near(arith, Last(fpr), NegativesSwept, number_negative, N)
        /\ number_positive > 0 =>
              Near(arith, Last(tpr), PositivesSwept, number_positive, N)
        /\ (pc = "done" /\ IsDoctestCall) => result = DoctestResult

C9_Witness ==
    /\ pc = "done" /\ IsDoctestCall /\ arith = "ieee"
    /\ result = DoctestResult
    /\ NegativesSwept = 2 /\ PositivesSwept = 2

AllScoresEqual ==
    \A j \in 1 .. N : \A k \in 1 .. N : probabilities[j] = probabilities[k]

(***************************************************************************)
(* C10 as stated: for a well-formed call with both classes,                *)
(* auc * number_positive * number_negative is the number of (positive,     *)
(* negative) pairs with the positive swept before the negative, which is   *)
(* the number of pairs whose positive scores higher than or equal to the   *)
(* negative; auc lies in [0, 1]; equal scores throughout give auc = 1.     *)
(***************************************************************************)
C10_AucCountsSweptPairsExactly ==
    (pc = "done" /\ BothClasses) =>
        /\ result[1] = Quotient(arith, SweptBeforePairs,
                                number_positive * number_negative)
        /\ SweptBeforePairs = HigherOrEqualPairs
        /\ LessEq(arith, Zero(arith), result[1])
        /\ LessEq(arith, result[1], One(arith))
        /\ AllScoresEqual => result[1] = One(arith)

(***************************************************************************)
(* C10 amended: the same with the equalities taken exactly in exact        *)
(* arithmetic and within n * 2^-52 in the doubles the code computes in:    *)
(* auc is (pairs with the positive swept before the negative) /            *)
(* (number_positive * number_negative), that number of pairs is the        *)
(* number whose positive scores higher than or equal to the negative,      *)
(* 0 <= auc <= 1 + n * 2^-52, and equal scores throughout give auc = 1     *)
(* within n * 2^-52.                                                       *)
(***************************************************************************)
C10_AucCountsSweptPairs ==
    (pc = "done" /\ BothClasses) =>
        /\ Near(arith, result[1], SweptBeforePairs,
                number_positive * number_negative, N)
        /\ SweptBeforePairs = HigherOrEqualPairs
        /\ LessEq(arith, Zero(arith), result[1])
        /\ IF arith = "ieee"
           THEN FLessEq(result[1], <<N * (2 ^ 8), 0, Base>>)
           ELSE LessEq(arith, result[1], One(arith))
        /\ AllScoresEqual => Near(arith, result[1], 1, 1, N)

C10_Witness ==
    /\ pc = "done" /\ BothClasses /\ AllScoresEqual /\ N = 3
    /\ Cardinality(Positives) = 1
    /\ SweptBeforePairs = 2
    /\ result[1] = One(arith)

====
